---- MODULE Spec2Model ----
(***************************************************************************)
(* chargecode-automation: a voice note is uploaded (app.py), transcribed,  *)
(* parsed into (task, hours) mentions and a date, each task is matched to  *)
(* a chargecode of the reference sheet, the hours are rescaled to an 8     *)
(* hour day and one row per entry is appended to the timesheet             *)
(* (workflow.py).                                                          *)
(*                                                                         *)
(* Text is a sequence of one-character strings, so that the regular        *)
(* expressions of workflow.py are modelled character by character, with    *)
(* their backtracking order.  Hours are kept in hundredths of an hour      *)
(* (2.0 hours is 200): every quantity of the input domain has at most two  *)
(* decimals, and on that domain the double arithmetic of the source        *)
(* (8.0 / S, h * factor * 100, int()) gives the hundredths computed here.  *)
(***************************************************************************)
EXTENDS Integers, Sequences, FiniteSets, TLC

\* Bounds of the model.
NumRuns == 2
MaxPhrases == 3

-----------------------------------------------------------------------------
\* Characters and text primitives (Python str, re).

DigitChars == <<"0","1","2","3","4","5","6","7","8","9">>
\* \d
Digit == {DigitChars[i] : i \in 1..10}
LowerChars == <<"a","b","c","d","e","f","g","h","i","j","k","l","m",
                "n","o","p","q","r","s","t","u","v","w","x","y","z">>
UpperChars == <<"A","B","C","D","E","F","G","H","I","J","K","L","M",
                "N","O","P","Q","R","S","T","U","V","W","X","Y","Z">>
\* \w
WordChar == {LowerChars[i] : i \in 1..26} \cup {UpperChars[i] : i \in 1..26}
              \cup Digit \cup {"_"}
\* \s
Space == {" "}
\* [\w\s]
WordOrSpace == WordChar \cup Space

\* The character at position i, "" past either end.
At(t, i) == IF i \in 1..Len(t) THEN t[i] ELSE ""

\* t[i:j] of Python with 1-based i and exclusive j.
Slice(t, i, j) == SubSeq(t, i, j - 1)

StartsWith(t, i, w) ==
    /\ i >= 1
    /\ i + Len(w) - 1 <= Len(t)
    /\ \A k \in 1..Len(w) : t[i + k - 1] = w[k]

\* The least member of a set of positions that is not empty.
Least(S) == CHOOSE x \in S : \A y \in S : x <= y

\* The end of the longest run of characters of class C that starts at i
\* (a greedy C*): the first position at or after i whose character is not in C.
RunEnd(t, i, C) ==
    IF At(t, i) \notin C THEN i
    ELSE CHOOSE j \in (i + 1)..(Len(t) + 1) :
            /\ At(t, j) \notin C
            /\ \A k \in (i + 1)..(j - 1) : At(t, k) \in C

\* The index of the first word of the alternation `words` found at i, or 0.
WordAt(t, i, words) ==
    IF \E k \in 1..Len(words) : StartsWith(t, i, words[k])
    THEN CHOOSE k \in 1..Len(words) :
            /\ StartsWith(t, i, words[k])
            /\ \A j \in 1..(k - 1) : ~StartsWith(t, i, words[j])
    ELSE 0

RECURSIVE Concat(_)
Concat(ss) == IF ss = <<>> THEN <<>> ELSE Head(ss) \o Concat(Tail(ss))

\* hi, hi-1, ..., lo: the lengths a greedy quantifier tries, longest first.
Desc(hi, lo) == [k \in 1..(hi - lo + 1) |-> hi - k + 1]

DigitVal(c) == (CHOOSE i \in 1..10 : DigitChars[i] = c) - 1

\* int() of a string of digits.
RECURSIVE ToInt(_)
ToInt(ds) ==
    IF ds = <<>> THEN 0
    ELSE ToInt(SubSeq(ds, 1, Len(ds) - 1)) * 10 + DigitVal(ds[Len(ds)])

\* str() of a natural number.
RECURSIVE IntToStr(_)
IntToStr(n) ==
    IF n < 10 THEN <<DigitChars[n + 1]>>
    ELSE IntToStr(n \div 10) \o <<DigitChars[(n % 10) + 1]>>

\* str.lower()
LowerChar(c) ==
    IF \E i \in 1..26 : UpperChars[i] = c
    THEN LowerChars[CHOOSE i \in 1..26 : UpperChars[i] = c]
    ELSE c
Lower(t) == <<>> \o [i \in 1..Len(t) |-> LowerChar(t[i])]

\* str.strip()
RECURSIVE LStrip(_)
LStrip(t) == IF t # <<>> /\ Head(t) \in Space THEN LStrip(Tail(t)) ELSE t
RECURSIVE RStrip(_)
RStrip(t) ==
    IF t # <<>> /\ t[Len(t)] \in Space THEN RStrip(SubSeq(t, 1, Len(t) - 1)) ELSE t
Strip(t) == RStrip(LStrip(t))

-----------------------------------------------------------------------------
\* parse_decimal_words: "one point five" -> "1.5".

\* word_to_num, in the order of the dictionary: the word at index k is k - 1.
word_to_num == << <<"z","e","r","o">>, <<"o","n","e">>, <<"t","w","o">>,
                  <<"t","h","r","e","e">>, <<"f","o","u","r">>, <<"f","i","v","e">>,
                  <<"s","i","x">>, <<"s","e","v","e","n">>, <<"e","i","g","h","t">>,
                  <<"n","i","n","e">>, <<"t","e","n">> >>

\* The value of a number word.
WordValue(w) == (CHOOSE k \in 1..Len(word_to_num) : word_to_num[k] = w) - 1

\* The alternations of decimal_pattern, in their written order.
WholeWords == SubSeq(word_to_num, 1, 11)
FirstDigitWords == << word_to_num[3], word_to_num[6], word_to_num[8], word_to_num[1],
                      word_to_num[2], word_to_num[4], word_to_num[5], word_to_num[7],
                      word_to_num[9], word_to_num[10] >>
SecondDigitWords == << word_to_num[6], word_to_num[3], word_to_num[1], word_to_num[2],
                       word_to_num[4], word_to_num[5], word_to_num[7], word_to_num[8],
                       word_to_num[9], word_to_num[10] >>
AnotherWord == <<"a","n","o","t","h","e","r">>
PointWord == <<"p","o","i","n","t">>

\* str() of the float val of repl, val given in hundredths: 150 -> "1.5",
\* 25 -> "0.25", 200 -> "2.0".  With one digit word after "point" (the
\* phrases of the input domain) this is the string Python prints; with two,
\* the double sum may print with more digits (0.12000000000000001), which
\* is outside what is modelled.
FloatStr(v) ==
    IntToStr(v \div 100) \o <<".">> \o
        (IF v % 10 = 0 THEN <<DigitChars[((v % 100) \div 10) + 1]>>
         ELSE <<DigitChars[((v % 100) \div 10) + 1], DigitChars[(v % 10) + 1]>>)

\* (?:another\s+)?(zero|...|ten)?\s* at position i: the whole-number word
\* found (0: none) and the position c where "point" has to follow.
DecimalHead(t, i) ==
    LET a == IF StartsWith(t, i, AnotherWord) /\ At(t, i + 7) \in Space
             THEN RunEnd(t, i + 7, Space) ELSE i
        w == WordAt(t, a, WholeWords)
    IN  [w |-> w, c |-> RunEnd(t, IF w > 0 THEN a + Len(WholeWords[w]) ELSE a, Space)]

\* (?:\s+(five|two|...))? after the first digit word k1, which ends at e;
\* f is the position after the spaces from e.
DecimalSecond(t, k1, e, f) ==
    LET k2 == IF f > e THEN WordAt(t, f, SecondDigitWords) ELSE 0
    IN  [ok |-> TRUE,
         end |-> IF k2 > 0 THEN f + Len(SecondDigitWords[k2]) ELSE e,
         val |-> WordValue(FirstDigitWords[k1]) * 10
                 + (IF k2 > 0 THEN WordValue(SecondDigitWords[k2]) ELSE 0)]

\* point\s+(two|five|...)(?:\s+(five|two|...))? at position c: [ok, end, val].
DecimalTail(t, c) ==
    LET d  == RunEnd(t, c + 5, Space)
        k1 == WordAt(t, d, FirstDigitWords)
        e  == d + Len(FirstDigitWords[k1])
    IN  IF StartsWith(t, c, PointWord) /\ d > c + 5 /\ k1 > 0
        THEN DecimalSecond(t, k1, e, RunEnd(t, e, Space))
        ELSE [ok |-> FALSE, end |-> c, val |-> 0]

\* decimal_pattern matched at position i: [ok, end, val].  No alternative of
\* the pattern is left untried: a position holds at most one word of each
\* alternation, and when "another", the whole-number word or the spaces are
\* present, the match without them would have to find "point" in their place.
DecimalMatchAt(t, i) ==
    LET Matched(head, tail) ==
            [tail EXCEPT !.val = @ + (IF head.w > 0
                                      THEN WordValue(WholeWords[head.w]) * 100 ELSE 0)]
        From(head) == Matched(head, DecimalTail(t, head.c))
    IN  From(DecimalHead(t, i))

\* re.sub(decimal_pattern, repl, text) from position i on: the text up to
\* the leftmost match, its replacement, and the rest after the match.
RECURSIVE DecimalSub(_, _)
DecimalSub(t, i) ==
    LET From(ms, starts) ==
            IF starts = {} THEN Slice(t, i, Len(t) + 1)
            ELSE Slice(t, i, Least(starts)) \o FloatStr(ms[Least(starts)].val)
                     \o DecimalSub(t, ms[Least(starts)].end)
        Scan(ms) == From(ms, {j \in DOMAIN ms : ms[j].ok})
    IN  Scan([j \in i..Len(t) |-> DecimalMatchAt(t, j)])

parse_decimal_words(text) == DecimalSub(text, 1)

-----------------------------------------------------------------------------
\* parse_tasks, the quantity-hour pattern:
\*   (zero|...|ten|\d+(\.\d+)?+)\s*hour[s]?\s*(?:of|on|for|doing)?\s*([\w\s]+)

HourWord == <<"h","o","u","r">>
Connectors == << <<"o","f">>, <<"o","n">>, <<"f","o","r">>, <<"d","o","i","n","g">> >>

\* The end of group 1 at position i, or 0: a number word, else \d+ with the
\* possessive decimal part.  A shorter \d+ is followed by a digit, where
\* \s*hour cannot match, so only the longest one is a candidate.
QuantityEnd(t, i) ==
    LET w == WordAt(t, i, word_to_num)
        j == RunEnd(t, i, Digit)
    IN  IF w > 0 THEN i + Len(word_to_num[w])
        ELSE IF j > i
             THEN IF At(t, j) = "." /\ At(t, j + 1) \in Digit
                  THEN RunEnd(t, j + 1, Digit) ELSE j
             ELSE 0

\* \s*(?:of|on|for|doing)?\s* from p: the positions where group 3 may start,
\* in the order the backtracking matcher tries them (each quantifier greedy).
TailStarts(t, p) ==
    LET as == Desc(RunEnd(t, p, Space), p)
        bs(a) == LET k == WordAt(t, a, Connectors)
                 IN  IF k > 0 THEN <<a + Len(Connectors[k]), a>> ELSE <<a>>
        gs(b) == Desc(RunEnd(t, b, Space), b)
    IN  Concat([x \in 1..Len(as) |->
                  Concat([y \in 1..Len(bs(as[x])) |-> gs(bs(as[x])[y])])])

\* hour[s]? ends at h + 1 when an "s" follows (tried first), else at h.
GroupStarts(t, h) ==
    (IF At(t, h) = "s" THEN TailStarts(t, h + 1) ELSE <<>>) \o TailStarts(t, h)

\* The pattern matched at position i: [ok, hours_str, task, end].  Group 3 is
\* the longest run of [\w\s] from the first start that has one.
HoursMatchAt(t, i) ==
    LET NoMatch == [ok |-> FALSE, hours_str |-> <<>>, task |-> <<>>, end |-> i]
        Matched(q, g, e) ==
            [ok |-> TRUE, hours_str |-> Slice(t, i, q), task |-> Slice(t, g, e),
             end |-> e]
        FromGroup(q, g) == Matched(q, g, RunEnd(t, g, WordOrSpace))
        FromStarts(q, gs) ==
            IF \E x \in 1..Len(gs) : At(t, gs[x]) \in WordOrSpace
            THEN FromGroup(q, gs[CHOOSE x \in 1..Len(gs) :
                                    /\ At(t, gs[x]) \in WordOrSpace
                                    /\ \A y \in 1..(x - 1) : At(t, gs[y]) \notin WordOrSpace])
            ELSE NoMatch
        FromHour(q, ws) ==
            IF q > 0 /\ StartsWith(t, ws, HourWord)
            THEN FromStarts(q, GroupStarts(t, ws + 4)) ELSE NoMatch
        FromQuantity(q) == FromHour(q, RunEnd(t, q, Space))
    IN  FromQuantity(QuantityEnd(t, i))

\* re.findall(pattern, text): the non-overlapping matches, leftmost first.
RECURSIVE FindAll(_, _)
FindAll(t, i) ==
    LET From(ms, starts) ==
            IF starts = {} THEN <<>>
            ELSE <<ms[Least(starts)]>> \o FindAll(t, ms[Least(starts)].end)
        Scan(ms) == From(ms, {j \in DOMAIN ms : ms[j].ok})
    IN  Scan([j \in i..Len(t) |-> HoursMatchAt(t, j)])

\* float(hours_str), in hundredths: a number word through word_to_num, else
\* the decimal string (at most two decimals in the input domain).
HoursValue(hours_str) ==
    IF \E k \in 1..Len(word_to_num) : word_to_num[k] = hours_str
    THEN WordValue(hours_str) * 100
    ELSE LET n == RunEnd(hours_str, 1, Digit)
             frac == Slice(hours_str, n + 1, Len(hours_str) + 1)
         IN  ToInt(Slice(hours_str, 1, n)) * 100
             + (IF Len(frac) = 0 THEN 0
                ELSE IF Len(frac) = 1 THEN ToInt(frac) * 10
                ELSE ToInt(SubSeq(frac, 1, 2)))

\* The tasks list of parse_tasks for the number-normalised text.
ExtractTasks(t) ==
    LET Entries(ms) ==
            <<>> \o [k \in 1..Len(ms) |->
                       [task |-> Strip(ms[k].task), hours |-> HoursValue(ms[k].hours_str)]]
    IN  Entries(FindAll(t, 1))

-----------------------------------------------------------------------------
\* parse_tasks, the date: date_patterns, datetime.strptime, strftime.

\* Python's None, where the value is otherwise a string that is not empty.
None == <<>>

Months == << <<"j","a","n","u","a","r","y">>, <<"f","e","b","r","u","a","r","y">>,
             <<"m","a","r","c","h">>, <<"a","p","r","i","l">>, <<"m","a","y">>,
             <<"j","u","n","e">>, <<"j","u","l","y">>, <<"a","u","g","u","s","t">>,
             <<"s","e","p","t","e","m","b","e","r">>, <<"o","c","t","o","b","e","r">>,
             <<"n","o","v","e","m","b","e","r">>, <<"d","e","c","e","m","b","e","r">> >>
OrdinalSuffixes == << <<"s","t">>, <<"n","d">>, <<"r","d">>, <<"t","h">> >>
\* [\/\-]
DateSep == {"/", "-"}

\* \d{n} at position i.
DigitsAt(t, i, n) == \A k \in 0..(n - 1) : At(t, i + k) \in Digit

\* The lengths \d{1,2} tries for day and month, in backtracking order.
OneOrTwo == <<2, 1>>
DayMonthLengths == << <<2, 2>>, <<2, 1>>, <<1, 2>>, <<1, 1>> >>

\* The first member of the sequence of candidate ends that is not 0, or 0.
FirstEnd(ends) ==
    IF \E k \in 1..Len(ends) : ends[k] > 0
    THEN ends[CHOOSE k \in 1..Len(ends) :
                 ends[k] > 0 /\ \A j \in 1..(k - 1) : ends[j] = 0]
    ELSE 0

\* (\d{1,2})[\/\-](\d{1,2})[\/\-](\d{ylen}) at position i: its end, or 0.
NumericDateEnd(t, i, ylen) ==
    FirstEnd([c \in 1..4 |->
        LET n == DayMonthLengths[c][1]
            m == DayMonthLengths[c][2]
        IN  IF /\ DigitsAt(t, i, n) /\ At(t, i + n) \in DateSep
               /\ DigitsAt(t, i + n + 1, m) /\ At(t, i + n + 1 + m) \in DateSep
               /\ DigitsAt(t, i + n + m + 2, ylen)
            THEN i + n + m + 2 + ylen ELSE 0])

\* \s+(month)\s+(\d{4}) at position p: its end, or 0.
MonthYearEnd(t, p) ==
    LET a == RunEnd(t, p, Space)
        k == WordAt(t, a, Months)
        b == a + Len(Months[k])
        c == RunEnd(t, b, Space)
    IN  IF a > p /\ k > 0 /\ c > b /\ DigitsAt(t, c, 4) THEN c + 4 ELSE 0

\* (month)\s+(\d{1,2}),?\s+(\d{4}) at position i: its end, or 0.
MonthDayYearEnd(t, i) ==
    LET k == WordAt(t, i, Months)
        a == i + Len(Months[k])
        b == RunEnd(t, a, Space)
    IN  IF k = 0 \/ b = a THEN 0
        ELSE FirstEnd([c \in 1..2 |->
                LET d == b + OneOrTwo[c]
                    e == IF At(t, d) = "," THEN d + 1 ELSE d
                    f == RunEnd(t, e, Space)
                IN  IF DigitsAt(t, b, OneOrTwo[c]) /\ f > e /\ DigitsAt(t, f, 4)
                    THEN f + 4 ELSE 0])

\* (\d{1,2})\s+(month)\s+(\d{4}) at position i: its end, or 0.
DayMonthYearEnd(t, i) ==
    FirstEnd([c \in 1..2 |->
        IF DigitsAt(t, i, OneOrTwo[c]) THEN MonthYearEnd(t, i + OneOrTwo[c]) ELSE 0])

\* (\d{1,2})(st|nd|rd|th)\s+(month)\s+(\d{4}) at position i: its end, or 0.
OrdinalDateEnd(t, i) ==
    FirstEnd([c \in 1..2 |->
        LET s == WordAt(t, i + OneOrTwo[c], OrdinalSuffixes)
        IN  IF DigitsAt(t, i, OneOrTwo[c]) /\ s > 0
            THEN MonthYearEnd(t, i + OneOrTwo[c] + 2) ELSE 0])

\* The format strings of date_patterns, directive by directive.
date_formats == << <<"%d", "/", "%m", "/", "%Y">>,
                   <<"%d", "/", "%m", "/", "%y">>,
                   <<"%B", " ", "%d", " ", "%Y">>,
                   <<"%d", " ", "%B", " ", "%Y">>,
                   <<"%d", " ", "%B", " ", "%Y">> >>

\* Pattern p of date_patterns matched at position i: its end, or 0.
DatePatternEnd(t, i, p) ==
    CASE p = 1 -> NumericDateEnd(t, i, 4)
      [] p = 2 -> NumericDateEnd(t, i, 2)
      [] p = 3 -> MonthDayYearEnd(t, i)
      [] p = 4 -> DayMonthYearEnd(t, i)
      [] p = 5 -> OrdinalDateEnd(t, i)

\* re.search(pattern p, t) from position i: [ok, text] of the leftmost match.
DateSearch(t, i, p) ==
    LET Found(ends, starts) ==
            IF starts = {} THEN [ok |-> FALSE, text |-> <<>>]
            ELSE [ok |-> TRUE, text |-> Slice(t, Least(starts), ends[Least(starts)])]
        Scan(ends) == Found(ends, {j \in DOMAIN ends : ends[j] > 0})
    IN  Scan([j \in i..Len(t) |-> DatePatternEnd(t, j, p)])

\* 'st' in matched_text or 'nd' in ... or 'th' in matched_text
HasSuffixText(t) ==
    \E i \in 1..Len(t) : WordAt(t, i, OrdinalSuffixes) > 0

\* re.sub(r'(\d+)(st|nd|rd|th)', r'\1', t) from position i on.
RECURSIVE OrdinalSub(_, _)
OrdinalSub(t, i) ==
    IF i > Len(t) THEN <<>>
    ELSE LET j == RunEnd(t, i, Digit)
         IN  IF j > i /\ WordAt(t, j, OrdinalSuffixes) > 0
             THEN Slice(t, i, j) \o OrdinalSub(t, j + 2)
             ELSE <<t[i]>> \o OrdinalSub(t, i + 1)

NoDate == [ok |-> FALSE, end |-> 0, day |-> 0, month |-> 0, year |-> 0]

\* %d of strptime: 3[0-1]|[1-2]\d|0[1-9]|[1-9], the length-n alternative at pos.
DayField(s, pos, n) ==
    /\ DigitsAt(s, pos, n)
    /\ IF n = 2 THEN ToInt(Slice(s, pos, pos + 2)) \in 1..31 ELSE At(s, pos) # "0"
\* %m of strptime: 1[0-2]|0[1-9]|[1-9]
MonthField(s, pos, n) ==
    /\ DigitsAt(s, pos, n)
    /\ IF n = 2 THEN ToInt(Slice(s, pos, pos + 2)) \in 1..12 ELSE At(s, pos) # "0"

\* The regular expression strptime builds from a format, matched from pos,
\* from directive k on: the fields of the first successful alternative.
RECURSIVE StrptimeFrom(_, _, _, _, _)
StrptimeFrom(s, pos, fmt, k, acc) ==
    IF k > Len(fmt) THEN [acc EXCEPT !.ok = TRUE, !.end = pos]
    ELSE LET dv == fmt[k]
             two == StrptimeFrom(s, pos + 2, fmt, k + 1,
                       IF dv = "%d"
                       THEN [acc EXCEPT !.day = ToInt(Slice(s, pos, pos + 2))]
                       ELSE [acc EXCEPT !.month = ToInt(Slice(s, pos, pos + 2))])
             one == StrptimeFrom(s, pos + 1, fmt, k + 1,
                       IF dv = "%d"
                       THEN [acc EXCEPT !.day = ToInt(Slice(s, pos, pos + 1))]
                       ELSE [acc EXCEPT !.month = ToInt(Slice(s, pos, pos + 1))])
             mon == WordAt(s, pos, Months)
             yy  == ToInt(Slice(s, pos, pos + 2))
         IN  CASE dv = "%d" ->
                    IF DayField(s, pos, 2) /\ two.ok THEN two
                    ELSE IF DayField(s, pos, 1) THEN one ELSE NoDate
               [] dv = "%m" ->
                    IF MonthField(s, pos, 2) /\ two.ok THEN two
                    ELSE IF MonthField(s, pos, 1) THEN one ELSE NoDate
               [] dv = "%Y" ->
                    IF DigitsAt(s, pos, 4)
                    THEN StrptimeFrom(s, pos + 4, fmt, k + 1,
                            [acc EXCEPT !.year = ToInt(Slice(s, pos, pos + 4))])
                    ELSE NoDate
               [] dv = "%y" ->
                    \* 00-68 are 2000-2068, 69-99 are 1969-1999
                    IF DigitsAt(s, pos, 2)
                    THEN StrptimeFrom(s, pos + 2, fmt, k + 1,
                            [acc EXCEPT !.year = IF yy <= 68 THEN 2000 + yy
                                                 ELSE 1900 + yy])
                    ELSE NoDate
               [] dv = "%B" ->
                    IF mon > 0
                    THEN StrptimeFrom(s, pos + Len(Months[mon]), fmt, k + 1,
                            [acc EXCEPT !.month = mon])
                    ELSE NoDate
               [] dv = " " ->
                    \* white space of the format is \s+
                    IF At(s, pos) \in Space
                    THEN StrptimeFrom(s, RunEnd(s, pos, Space), fmt, k + 1, acc)
                    ELSE NoDate
               [] OTHER ->
                    IF At(s, pos) = dv
                    THEN StrptimeFrom(s, pos + 1, fmt, k + 1, acc) ELSE NoDate

IsLeap(y) == (y % 4 = 0 /\ y % 100 # 0) \/ y % 400 = 0
DaysInMonth(y, m) ==
    IF m = 2 THEN (IF IsLeap(y) THEN 29 ELSE 28)
    ELSE IF m \in {4, 6, 9, 11} THEN 30 ELSE 31

\* datetime.strptime(s, fmt): [ok, day, month, year]; ok is FALSE where it
\* raises ValueError (no match, unconverted data, or no such calendar day).
Strptime(s, fmt) ==
    LET Checked(r) ==
            IF /\ r.ok /\ r.end = Len(s) + 1
               /\ r.year >= 1 /\ r.day <= DaysInMonth(r.year, r.month)
            THEN r ELSE NoDate
    IN  Checked(StrptimeFrom(s, 1, fmt, 1, NoDate))

TwoDigits(n) == <<DigitChars[(n \div 10) + 1], DigitChars[(n % 10) + 1]>>

\* parsed_date.strftime("%Y-%m-%d")
Strftime(year, month, day) ==
    IntToStr(year) \o <<"-">> \o TwoDigits(month) \o <<"-">> \o TwoDigits(day)

\* The loop over date_patterns from pattern p on: [error, extracted_date].
\* The first pattern found anywhere in the text decides: its text is parsed
\* with the pattern's format, and a ValueError is raised again.
RECURSIVE ExtractDate(_, _)
ExtractDate(t, p) ==
    LET Formatted(parsed_date) ==
            IF parsed_date.ok
            THEN [error |-> "",
                  extracted_date |-> Strftime(parsed_date.year, parsed_date.month,
                                              parsed_date.day)]
            ELSE [error |-> "ValueError", extracted_date |-> None]
        Parsed(matched_text) == Formatted(Strptime(matched_text, date_formats[p]))
        Searched(m) ==
            IF ~m.ok THEN ExtractDate(t, p + 1)
            ELSE Parsed(IF HasSuffixText(m.text) THEN OrdinalSub(m.text, 1) ELSE m.text)
    IN  IF p > Len(date_formats) THEN [error |-> "", extracted_date |-> None]
        ELSE Searched(DateSearch(t, 1, p))

\* parse_tasks(transcription): [error, tasks, extracted_date, text], text
\* being the transcription as parse_tasks rewrites it for itself (lower
\* case, number words as decimals).
parse_tasks(transcription) ==
    LET Tasks(text, date) ==
            IF date.error # ""
            THEN [error |-> date.error, tasks |-> <<>>, extracted_date |-> None,
                  text |-> text]
            ELSE [error |-> "", tasks |-> ExtractTasks(Lower(text)),
                  extracted_date |-> date.extracted_date, text |-> text]
        Dated(text) == Tasks(text, ExtractDate(Lower(text), 1))
    IN  Dated(parse_decimal_words(Lower(transcription)))

-----------------------------------------------------------------------------
\* rapidfuzz, as map_to_chargecodes calls it:
\*   process.extractOne(task, choices, scorer=fuzz.token_set_ratio)
\* with no processor and no score cutoff.  A score is kept in units of
\* 0.0001 (100.0 is 1000000), so that different ratios stay different.

\* The characters in code point order, for sorted().
Ascii == <<" ", ",", "-", ".", "/">> \o DigitChars \o UpperChars \o <<"_">> \o LowerChars
Code(c) == CHOOSE i \in 1..Len(Ascii) : Ascii[i] = c

\* a < b of two strings.
RECURSIVE StrLessFrom(_, _, _)
StrLessFrom(a, b, k) ==
    IF k > Len(b) THEN FALSE
    ELSE IF k > Len(a) THEN TRUE
    ELSE IF a[k] = b[k] THEN StrLessFrom(a, b, k + 1)
    ELSE Code(a[k]) < Code(b[k])
StrLess(a, b) == StrLessFrom(a, b, 1)

\* sorted(S) of a set of strings.
RECURSIVE Sorted(_)
Sorted(S) ==
    IF S = {} THEN <<>>
    ELSE LET m == CHOOSE x \in S : \A y \in S \ {x} : StrLess(x, y)
         IN  <<m>> \o Sorted(S \ {m})

\* The first position at or after i that holds white space, or the end.
RECURSIVE TokenEnd(_, _)
TokenEnd(t, i) ==
    IF i > Len(t) \/ t[i] \in Space THEN i ELSE TokenEnd(t, i + 1)

\* s.split() from position i on.
RECURSIVE SplitFrom(_, _)
SplitFrom(t, i) ==
    LET a == RunEnd(t, i, Space)
    IN  IF a > Len(t) THEN <<>>
        ELSE <<Slice(t, a, TokenEnd(t, a))>> \o SplitFrom(t, TokenEnd(t, a))
Tokens(t) == LET ws == SplitFrom(t, 1) IN {ws[k] : k \in 1..Len(ws)}

\* " ".join(words)
RECURSIVE Join(_)
Join(ws) ==
    IF ws = <<>> THEN <<>>
    ELSE IF Len(ws) = 1 THEN ws[1]
    ELSE ws[1] \o <<" ">> \o Join(Tail(ws))

Max(a, b) == IF a >= b THEN a ELSE b

\* One row of the longest-common-subsequence table from the row before it:
\* row[j + 1] is the LCS length of the prefix ending in c with the first j
\* characters of s2.  Either c is left out (prev[j + 1]) or it is paired with
\* an equal character s2[k], k <= j, after an LCS with the first k - 1.
LcsRow(c, s2, prev) ==
    <<>> \o [n \in 1..(Len(s2) + 1) |->
               LET paired == {prev[k] + 1 : k \in {x \in 1..(n - 1) : s2[x] = c}}
                   all == paired \cup {prev[n]}
               IN  CHOOSE v \in all : \A w \in all : w <= v]
\* The last row of the table for the first i characters of s1.
RECURSIVE LcsTable(_, _, _)
LcsTable(s1, s2, i) ==
    IF i = 0 THEN [k \in 1..(Len(s2) + 1) |-> 0]
    ELSE LcsRow(s1[i], s2, LcsTable(s1, s2, i - 1))
\* The table is built along the shorter of the two strings.
Lcs(s1, s2) ==
    IF Len(s1) <= Len(s2) THEN LcsTable(s1, s2, Len(s1))[Len(s2) + 1]
    ELSE LcsTable(s2, s1, Len(s2))[Len(s1) + 1]

\* Indel.distance: insertions and deletions only.
IndelDistance(s1, s2) == Len(s1) + Len(s2) - 2 * Lcs(s1, s2)

\* 100 - 100 * dist / lensum
NormDistance(dist, lensum) ==
    IF lensum = 0 THEN 1000000 ELSE ((lensum - dist) * 1000000) \div lensum

\* fuzz.token_set_ratio(s1, s2)
token_set_ratio(s1, s2) ==
    LET Score(diff_ab, diff_ba, sect_len) ==
            LET gap == IF sect_len # 0 THEN 1 ELSE 0
                sect_ab_len == sect_len + gap + Len(diff_ab)
                sect_ba_len == sect_len + gap + Len(diff_ba)
                result == NormDistance(IndelDistance(diff_ab, diff_ba),
                                       sect_ab_len + sect_ba_len)
                sect_ab_ratio == NormDistance(gap + Len(diff_ab), sect_len + sect_ab_len)
                sect_ba_ratio == NormDistance(gap + Len(diff_ba), sect_len + sect_ba_len)
            IN  IF sect_len = 0 THEN result
                ELSE Max(result, Max(sect_ab_ratio, sect_ba_ratio))
        Ratio(tokens_a, tokens_b) ==
            IF tokens_a = {} \/ tokens_b = {} THEN 0
            ELSE IF /\ tokens_a \cap tokens_b # {}
                    /\ (tokens_a \subseteq tokens_b \/ tokens_b \subseteq tokens_a)
                 THEN 1000000
            ELSE Score(Join(Sorted(tokens_a \ tokens_b)),
                       Join(Sorted(tokens_b \ tokens_a)),
                       Len(Join(Sorted(tokens_a \cap tokens_b))))
    IN  Ratio(Tokens(s1), Tokens(s2))

\* extractOne keeping the last of the choices with the highest score (a later
\* choice replaces the best one already at an equal score): claim C9 tells
\* the two apart.
extractOneLastOnTies(query, choices) ==
    LET Best(score, pos) ==
            [found |-> TRUE, choice |-> choices[pos], score |-> score[pos],
             index |-> pos]
        Scored(score) ==
            Best(score, CHOOSE k \in 1..Len(choices) :
                           /\ \A j \in 1..Len(choices) : score[j] <= score[k]
                           /\ \A j \in (k + 1)..Len(choices) : score[j] < score[k])
    IN  IF choices = <<>>
        THEN [found |-> FALSE, choice |-> <<>>, score |-> 0, index |-> 0]
        ELSE Scored(<<>> \o [k \in 1..Len(choices) |->
                                token_set_ratio(query, choices[k])])

\* process.extractOne(query, choices, scorer=fuzz.token_set_ratio):
\* [found, choice, score, index], the first of the choices with the highest
\* score (a later choice replaces the best one only with a higher score);
\* found is FALSE (Python's None) when there is no choice.  index is the
\* 1-based position here, the 0-based one in Python.
extractOne(query, choices) ==
    LET Best(score, pos) ==
            [found |-> TRUE, choice |-> choices[pos], score |-> score[pos],
             index |-> pos]
        Scored(score) ==
            Best(score, CHOOSE k \in 1..Len(choices) :
                           /\ \A j \in 1..Len(choices) : score[j] <= score[k]
                           /\ \A j \in 1..(k - 1) : score[j] < score[k])
    IN  IF choices = <<>>
        THEN [found |-> FALSE, choice |-> <<>>, score |-> 0, index |-> 0]
        ELSE Scored(<<>> \o [k \in 1..Len(choices) |->
                                token_set_ratio(query, choices[k])])

-----------------------------------------------------------------------------
\* map_to_chargecodes.

RECURSIVE SumHours(_)
SumHours(entries) ==
    IF entries = <<>> THEN 0 ELSE Head(entries).hours + SumHours(Tail(entries))

\* The rescaling cut to one decimal (* 10 / 10 in place of * 100 / 100):
\* claim C1 tells the two apart.
ScaledHoursOneDecimal(hours, hours_till_now) ==
    ((hours * 80) \div hours_till_now) * 10

\* The rescaling rounded to the nearest hundredth (round() in place of
\* int()): claim C10 tells the two apart.
ScaledHoursRounded(hours, hours_till_now) ==
    (hours * 1600 + hours_till_now) \div (2 * hours_till_now)

\* int((entry["hours"] * scaling_factor) * 100) / 100 with
\* scaling_factor = 8.0 / hours_till_now, everything in hundredths.
ScaledHours(hours, hours_till_now) == (hours * 800) \div hours_till_now

\* One pass of the loop over tasks: the entry appended to mapped.
MapEntry(entry, date, ref_df) ==
    LET Entry(match_result) ==
            [date |-> date,
             chargecode_id |-> ref_df[match_result.index].WBS_element,
             hours |-> entry.hours,
             matched_with |-> match_result.choice,
             score |-> match_result.score]
    IN  Entry(extractOne(Strip(entry.task),
                         [k \in 1..Len(ref_df) |-> ref_df[k].Description]))

\* map_to_chargecodes(tasks, date, ref_df): [error, mapped].  A reference
\* sheet without records is a DataFrame without columns, and
\* ref_df["Description"] raises KeyError; the total is divided by
\* unconditionally, which raises ZeroDivisionError when it is 0.
map_to_chargecodes(tasks, date, ref_df) ==
    LET Normalized(mapped, hours_till_now) ==
            IF hours_till_now = 800 THEN [error |-> "", mapped |-> mapped]
            ELSE IF hours_till_now = 0
                 THEN [error |-> "ZeroDivisionError", mapped |-> <<>>]
            ELSE [error |-> "",
                  mapped |-> <<>> \o [k \in 1..Len(mapped) |->
                                        [mapped[k] EXCEPT
                                           !.hours = ScaledHours(@, hours_till_now)]]]
    IN  IF ref_df = <<>> THEN [error |-> "KeyError", mapped |-> <<>>]
        ELSE Normalized(<<>> \o [k \in 1..Len(tasks) |-> MapEntry(tasks[k], date, ref_df)],
                        SumHours(tasks))

-----------------------------------------------------------------------------
\* The inputs: what is said in a voice note, the reference sheet, the requests.

\* The ways a date is said: [form, day, month, year].
SpokenDates ==
    << [form |-> "DD/MM/YYYY",      day |-> 23, month |-> 9,  year |-> 2025],
       [form |-> "DD-MM-YYYY",      day |-> 23, month |-> 9,  year |-> 2025],
       [form |-> "DD/MM/YY",        day |-> 23, month |-> 9,  year |-> 2025],
       [form |-> "Month DD, YYYY",  day |-> 23, month |-> 9,  year |-> 2025],
       [form |-> "Month DD YYYY",   day |-> 23, month |-> 9,  year |-> 2025],
       [form |-> "DD Month YYYY",   day |-> 23, month |-> 9,  year |-> 2025],
       [form |-> "DDth Month YYYY", day |-> 23, month |-> 9,  year |-> 2025],
       [form |-> "DDth Month YYYY", day |-> 1,  month |-> 8,  year |-> 2025],
       [form |-> "DD/MM/YYYY",      day |-> 29, month |-> 2,  year |-> 2024],
       [form |-> "DD/MM/YYYY",      day |-> 31, month |-> 4,  year |-> 2024],
       [form |-> "DD/MM/YYYY",      day |-> 32, month |-> 13, year |-> 2024] >>

\* The phrases of a voice note: the text of one and what joins it to the next.
Phrases ==
    << [text   |-> <<"2"," ","h","o","u","r","s"," ","o","n"," ",
                     "d","a","t","a"," ","a","n","a","l","y","s","i","s">>,
        joiner |-> <<" ","a","n","d"," ">>],
       [text   |-> <<"2"," ","h","o","u","r","s"," ","o","n"," ","c","a","l","l","s">>,
        joiner |-> <<","," ">>],
       [text   |-> <<"0"," ","h","o","u","r","s"," ","o","n"," ","c","a","l","l","s">>,
        joiner |-> <<","," ">>],
       [text   |-> <<"t","h","r","e","e"," ","h","o","u","r","s"," ","o","f"," ",
                     "d","a","t","a">>,
        joiner |-> <<","," ">>],
       [text   |-> <<"o","n","e"," ","p","o","i","n","t"," ","f","i","v","e"," ",
                     "h","o","u","r","s"," ","d","o","i","n","g"," ",
                     "a","n","a","l","y","s","i","s">>,
        joiner |-> <<","," ">>],
       [text   |-> <<"2"," ","h","o","u","r","s">>,
        joiner |-> <<" ","-"," ">>] >>

\* What is said: a date of SpokenDates (0: none) and phrases of Phrases.
Utterance(date, phrases) == [date |-> date, phrases |-> phrases, exists |-> TRUE]
PhraseLists(n) == UNION {[1..k -> 1..Len(Phrases)] : k \in 0..n}

Capitalized(w) ==
    <<UpperChars[CHOOSE i \in 1..26 : LowerChars[i] = w[1]]>> \o Tail(w)

OrdinalOf(day) ==
    IF day \in {1, 21, 31} THEN OrdinalSuffixes[1]
    ELSE IF day \in {2, 22} THEN OrdinalSuffixes[2]
    ELSE IF day \in {3, 23} THEN OrdinalSuffixes[3]
    ELSE OrdinalSuffixes[4]

\* The written form of a spoken date.
DateText(d) ==
    LET month == Capitalized(Months[d.month])
    IN  CASE d.form = "DD/MM/YYYY" ->
               TwoDigits(d.day) \o <<"/">> \o TwoDigits(d.month) \o <<"/">> \o IntToStr(d.year)
          [] d.form = "DD-MM-YYYY" ->
               TwoDigits(d.day) \o <<"-">> \o TwoDigits(d.month) \o <<"-">> \o IntToStr(d.year)
          [] d.form = "DD/MM/YY" ->
               TwoDigits(d.day) \o <<"/">> \o TwoDigits(d.month) \o <<"/">>
                   \o TwoDigits(d.year % 100)
          [] d.form = "Month DD, YYYY" ->
               month \o <<" ">> \o IntToStr(d.day) \o <<",", " ">> \o IntToStr(d.year)
          [] d.form = "Month DD YYYY" ->
               month \o <<" ">> \o IntToStr(d.day) \o <<" ">> \o IntToStr(d.year)
          [] d.form = "DD Month YYYY" ->
               IntToStr(d.day) \o <<" ">> \o month \o <<" ">> \o IntToStr(d.year)
          [] d.form = "DDth Month YYYY" ->
               IntToStr(d.day) \o OrdinalOf(d.day) \o <<" ">> \o month \o <<" ">>
                   \o IntToStr(d.year)

RECURSIVE PhraseText(_)
PhraseText(ps) ==
    IF ps = <<>> THEN <<>>
    ELSE IF Len(ps) = 1 THEN Phrases[ps[1]].text \o <<".">>
    ELSE Phrases[ps[1]].text \o Phrases[ps[1]].joiner \o PhraseText(Tail(ps))

\* transcribe_audio(file_path): the text of what the file holds, as the
\* transcription service writes it:
\*   "Today is <date>. I spent <phrase><joiner><phrase>."
transcribe_audio(audio) ==
    (IF audio.date = 0 THEN <<>>
     ELSE <<"T","o","d","a","y"," ","i","s"," ">> \o DateText(SpokenDates[audio.date])
            \o <<".", " ">>)
    \o (IF audio.phrases = <<>> THEN <<>>
        ELSE <<"I"," ","s","p","e","n","t"," ">> \o PhraseText(audio.phrases))

\* Reference sheets: rows of Description and WBS element.
Row(description, wbs) == [Description |-> description, WBS_element |-> wbs]
DataAnalysis == <<"d","a","t","a"," ","a","n","a","l","y","s","i","s">>
ClientCalls == <<"c","l","i","e","n","t"," ","c","a","l","l","s">>
Calls == <<"c","a","l","l","s">>
Data == <<"d","a","t","a">>
TwoRowSheet == << Row(DataAnalysis, "WBS-100"), Row(ClientCalls, "WBS-200") >>
ThreeRowSheet == << Row(Calls, "WBS-200"), Row(Data, "WBS-300"),
                    Row(DataAnalysis, "WBS-100") >>
EmptySheet == << >>

Runs == 1..NumRuns

\* An upload: the "file" part of the form (or none), its filename, its content.
Upload(filename, audio) == [has_file |-> TRUE, filename |-> filename, audio |-> audio]
NoFilePart == [has_file |-> FALSE, filename |-> "", audio |-> Utterance(0, <<>>)]

\* One request alone: run 1 serves it, the other runs serve none.
Alone(req) == [r \in {1} |-> req]

\* The requests that are sent together.
ConcurrentUploads ==
    << Upload("note.wav", Utterance(1, <<2, 4>>)),
       Upload("note.wav", Utterance(0, <<5>>)),
       Upload("memo.wav", Utterance(0, <<5>>)) >>

\* The runs of the model: [requests, reference].
Scenarios ==
    \* one voice note of up to MaxPhrases phrases
    { [requests |-> Alone(Upload("note.wav", Utterance(1, ps))), reference |-> TwoRowSheet] :
         ps \in PhraseLists(MaxPhrases) }
    \cup
    \* a reference sheet where two descriptions match a task equally well
    { [requests |-> Alone(Upload("note.wav", Utterance(1, ps))), reference |-> ThreeRowSheet] :
         ps \in PhraseLists(2) }
    \cup
    \* every way of saying the date, and no date
    { [requests |-> Alone(Upload("note.wav", Utterance(d, ps))), reference |-> TwoRowSheet] :
         d \in 0..Len(SpokenDates), ps \in {<<>>, <<2>>} }
    \cup
    \* a reference sheet without rows
    { [requests |-> Alone(Upload("note.wav", Utterance(0, ps))), reference |-> EmptySheet] :
         ps \in {<<>>, <<2>>} }
    \cup
    \* requests without a file
    { [requests |-> Alone(req), reference |-> TwoRowSheet] :
         req \in {NoFilePart, Upload("", Utterance(0, <<2>>))} }
    \cup
    \* uploads sent together, one to each run (the runs are interchangeable:
    \* the uploads are given to them in the order of ConcurrentUploads)
    { [requests |-> [r \in Runs |-> ConcurrentUploads[which[r]]], reference |-> TwoRowSheet] :
         which \in {w \in [Runs -> 1..Len(ConcurrentUploads)] :
                       \A r \in Runs \ {NumRuns} : w[r] <= w[r + 1]} }

-----------------------------------------------------------------------------
\* The state.

VARIABLES
    requests,        \* the request of each run that serves one
    reference,       \* the reference sheet, as load_reference reads it
    uploads,         \* UPLOAD_FOLDER: the content of each file
    timesheet,       \* the rows of the timesheet; run is the run that wrote a row
    pc,              \* the last step each run has completed
    transcription,   \* run_workflow's locals
    normalized,      \* parse_tasks' transcription, once it has rewritten it
    tasks,
    extracted_date,
    mapped_entries,
    appended,        \* the entries append_timesheet has gone through
    response         \* what upload_file returned (status 0: nothing yet)

vars == <<requests, reference, uploads, timesheet, pc, transcription, normalized,
          tasks, extracted_date, mapped_entries, appended, response>>

FileNames == {"note.wav", "memo.wav"}
NoFile == [date |-> 0, phrases |-> <<>>, exists |-> FALSE]

NoResult == [transcription |-> <<>>, date |-> None, tasks |-> <<>>]
NoResponse == [status |-> 0, error |-> "", result |-> NoResult]
\* jsonify({"error": ...}), status
Failure(status, error) == [status |-> status, error |-> error, result |-> NoResult]
\* jsonify(result)
Success(result) == [status |-> 200, error |-> "", result |-> result]

\* The run serves a request and upload_file has not returned.
Running(r) == pc[r] # "off" /\ response[r].status = 0

Init ==
    /\ \E s \in Scenarios : requests = s.requests /\ reference = s.reference
    /\ uploads = [f \in FileNames |-> NoFile]
    /\ timesheet = <<>>
    /\ pc = [r \in Runs |-> IF r \in DOMAIN requests THEN "request" ELSE "off"]
    /\ transcription = [r \in Runs |-> <<>>]
    /\ normalized = [r \in Runs |-> <<>>]
    /\ tasks = [r \in Runs |-> <<>>]
    /\ extracted_date = [r \in Runs |-> None]
    /\ mapped_entries = [r \in Runs |-> <<>>]
    /\ appended = [r \in Runs |-> 0]
    /\ response = [r \in Runs |-> NoResponse]

\* file.save(filepath): the file of that name is written, or overwritten.
save(folder, filename, content) == [folder EXCEPT ![filename] = content]

\* A sheet that takes a new row as its first one: claim C8 tells the two apart.
insert_row_first(sheet, row) == <<row>> \o sheet

\* sheet.append_row(row): the row is added after the last one.
append_row(sheet, row) == Append(sheet, row)

\* [e["date"], e["chargecode_id"], e["hours"], e["matched_with"], e["score"]],
\* with the run that appends it.
TimesheetRow(r, e) ==
    [run |-> r, date |-> e.date, chargecode_id |-> e.chargecode_id,
     hours |-> e.hours, matched_with |-> e.matched_with, score |-> e.score]

\* upload_file, up to the call of run_workflow.
UploadFile(r) ==
    /\ Running(r) /\ pc[r] = "request"
    /\ IF ~requests[r].has_file
       THEN /\ response' = [response EXCEPT ![r] = Failure(400, "No file part")]
            /\ UNCHANGED <<uploads, pc>>
       ELSE IF requests[r].filename = ""
       THEN /\ response' = [response EXCEPT ![r] = Failure(400, "No selected file")]
            /\ UNCHANGED <<uploads, pc>>
       ELSE /\ uploads' = save(uploads, requests[r].filename, requests[r].audio)
            /\ pc' = [pc EXCEPT ![r] = "saved"]
            /\ UNCHANGED response
    /\ UNCHANGED <<requests, reference, timesheet, transcription, normalized, tasks,
                   extracted_date, mapped_entries, appended>>

\* run_workflow: connect_sheets, load_reference, transcribe_audio(voice_file).
\* The file is read when the run gets here.
TranscribeAudio(r) ==
    /\ Running(r) /\ pc[r] = "saved"
    /\ transcription' = [transcription EXCEPT
                            ![r] = transcribe_audio(uploads[requests[r].filename])]
    /\ pc' = [pc EXCEPT ![r] = "transcribed"]
    /\ UNCHANGED <<requests, reference, uploads, timesheet, normalized, tasks, extracted_date,
                   mapped_entries, appended, response>>

\* run_workflow: tasks, extracted_date = parse_tasks(transcription).  An
\* exception leaves run_workflow and upload_file answers 500 with its text.
ParseTasks(r) ==
    /\ Running(r) /\ pc[r] = "transcribed"
    /\ \E parsed \in {parse_tasks(transcription[r])} :
           IF parsed.error # ""
           THEN /\ response' = [response EXCEPT ![r] = Failure(500, parsed.error)]
                /\ UNCHANGED <<normalized, tasks, extracted_date, pc>>
           ELSE /\ normalized' = [normalized EXCEPT ![r] = parsed.text]
                /\ tasks' = [tasks EXCEPT ![r] = parsed.tasks]
                /\ extracted_date' = [extracted_date EXCEPT ![r] = parsed.extracted_date]
                /\ pc' = [pc EXCEPT ![r] = "parsed"]
                /\ UNCHANGED response
    /\ UNCHANGED <<requests, reference, uploads, timesheet, transcription,
                   mapped_entries, appended>>

\* run_workflow: mapped_entries = map_to_chargecodes(tasks, extracted_date, ref_df).
MapToChargecodes(r) ==
    /\ Running(r) /\ pc[r] = "parsed"
    /\ \E m \in {map_to_chargecodes(tasks[r], extracted_date[r], reference)} :
           IF m.error # ""
           THEN /\ response' = [response EXCEPT ![r] = Failure(500, m.error)]
                /\ UNCHANGED <<mapped_entries, pc>>
           ELSE /\ mapped_entries' = [mapped_entries EXCEPT ![r] = m.mapped]
                /\ pc' = [pc EXCEPT ![r] = "mapped"]
                /\ UNCHANGED response
    /\ UNCHANGED <<requests, reference, uploads, timesheet, transcription, normalized, tasks,
                   extracted_date, appended>>

\* append_timesheet: one pass of the loop, sheet.append_row([...]) returns.
AppendRow(r) ==
    /\ Running(r) /\ pc[r] = "mapped"
    /\ appended[r] < Len(mapped_entries[r])
    /\ timesheet' = append_row(timesheet,
                               TimesheetRow(r, mapped_entries[r][appended[r] + 1]))
    /\ appended' = [appended EXCEPT ![r] = @ + 1]
    /\ UNCHANGED <<requests, reference, uploads, pc, transcription, normalized, tasks,
                   extracted_date, mapped_entries, response>>

\* append_timesheet: sheet.append_row raises (the API refuses or cannot be
\* reached); the rows appended before stay.
AppendRowRaises(r) ==
    /\ Running(r) /\ pc[r] = "mapped"
    /\ appended[r] < Len(mapped_entries[r])
    /\ response' = [response EXCEPT ![r] = Failure(500, "APIError")]
    /\ UNCHANGED <<requests, reference, uploads, timesheet, pc, transcription, normalized, tasks,
                   extracted_date, mapped_entries, appended>>

\* run_workflow returns its result and upload_file answers with it.
ReturnResult(r) ==
    /\ Running(r) /\ pc[r] = "mapped"
    /\ appended[r] = Len(mapped_entries[r])
    /\ response' = [response EXCEPT
                      ![r] = Success([transcription |-> transcription[r],
                                      date |-> extracted_date[r],
                                      tasks |-> tasks[r]])]
    /\ UNCHANGED <<requests, reference, uploads, timesheet, pc, transcription, normalized, tasks,
                   extracted_date, mapped_entries, appended>>

Next ==
    \E r \in Runs :
        \/ UploadFile(r)
        \/ TranscribeAudio(r)
        \/ ParseTasks(r)
        \/ MapToChargecodes(r)
        \/ AppendRow(r)
        \/ AppendRowRaises(r)
        \/ ReturnResult(r)

Spec == Init /\ [][Next]_vars

-----------------------------------------------------------------------------
\* The claims of the specification, as properties of Spec.  Hours are in
\* hundredths: 8.0 hours is 800, 0.01 is 1.

\* C1, as the specification states it: after normalization the hours of a
\* run's entries sum to 8.0 within 0.01, for any number of entries.
C1_SumWithinOneHundredth ==
    \A r \in Runs :
        pc[r] = "mapped" =>
            /\ SumHours(mapped_entries[r]) >= 799
            /\ SumHours(mapped_entries[r]) <= 801

\* C1, amended: after normalization the hours of a run's n entries sum to
\* at most 8.0 + 0.01 and at least 8.0 - 0.01 * n: truncation takes less
\* than 0.01 from each entry.
C1_SumLosesAtMostOneHundredthPerEntry ==
    \A r \in Runs :
        pc[r] = "mapped" =>
            /\ SumHours(mapped_entries[r]) >= 800 - Len(mapped_entries[r])
            /\ SumHours(mapped_entries[r]) <= 801

\* Three entries of 2 hours are rescaled to 2.66 each: the sum is 7.98.
C1_ThreeEntriesLoseTwoHundredths ==
    \E r \in Runs :
        /\ pc[r] = "mapped"
        /\ Len(mapped_entries[r]) >= 3
        /\ SumHours(mapped_entries[r]) = 798

\* C2: a run whose transcript holds no quantity-hour phrase is not aborted:
\* it returns an empty list of tasks with the date it extracted, and no
\* error reaches the caller (the reference sheet has rows).
C2_NoPhraseNoAbort ==
    \A r \in Runs :
        (pc[r] \in {"parsed", "mapped"} /\ tasks[r] = <<>> /\ reference # <<>>) =>
            /\ response[r].status \in {0, 200}
            /\ response[r].status = 200 =>
                  /\ response[r].result.tasks = <<>>
                  /\ response[r].result.date = extracted_date[r]

\* C3: when the tasks are not empty and their hours sum to 0, normalization
\* ends in the DegenerateInputError outcome, surfaced to the caller.
C3_ZeroTotalIsDegenerateInputError ==
    \A r \in Runs :
        (/\ pc[r] = "parsed" /\ response[r].status # 0
         /\ tasks[r] # <<>> /\ SumHours(tasks[r]) = 0 /\ reference # <<>>) =>
            response[r].error = "DegenerateInputError"

\* A quantity-hour occurrence in a text: a quantity, white space, "hour".
HasQuantityHour(text) ==
    \E i \in 1..Len(text) :
        /\ QuantityEnd(text, i) > 0
        /\ StartsWith(text, RunEnd(text, QuantityEnd(text, i), Space), HourWord)

\* C4: the text of every task stops before the next quantity-hour
\* occurrence of the transcript: no task text holds one.
C4_TaskStopsBeforeNextQuantityHour ==
    \A r \in Runs :
        pc[r] \in {"parsed", "mapped"} =>
            \A k \in 1..Len(tasks[r]) : ~HasQuantityHour(tasks[r][k].task)

\* A day of the calendar.
ValidDate(d) ==
    /\ d.month \in 1..12
    /\ d.day \in 1..DaysInMonth(d.year, d.month)

\* C5: a valid calendar date said in any of the listed forms is extracted
\* and returned as YYYY-MM-DD; parse_tasks does not raise on it.  (A run
\* alone: the transcript is the one of its own upload.)
C5_EveryListedFormExtracted ==
    \A r \in DOMAIN requests :
        (/\ DOMAIN requests = {r}
         /\ requests[r].audio.date # 0
         /\ ValidDate(SpokenDates[requests[r].audio.date])) =>
            /\ pc[r] = "transcribed" => response[r].status = 0
            /\ pc[r] \in {"parsed", "mapped"} =>
                  extracted_date[r] =
                      Strftime(SpokenDates[requests[r].audio.date].year,
                               SpokenDates[requests[r].audio.date].month,
                               SpokenDates[requests[r].audio.date].day)

\* C6: the timesheet holds no row of a run that ended in an error.
C6_NoRowOfFailedRun ==
    \A r \in Runs :
        response[r].status \notin {0, 200} =>
            \A i \in 1..Len(timesheet) : timesheet[i].run # r

\* C7: whatever the other runs do, a run transcribes the file it was given.
C7_RunTranscribesItsOwnUpload ==
    \A r \in Runs :
        pc[r] \in {"transcribed", "parsed", "mapped"} =>
            transcription[r] = transcribe_audio(requests[r].audio)

\* C10: normalization never makes the day exceed 8 hours, and leaves the
\* hours as they are when they already sum to 8.0.
C10_NeverMoreThanEightHours ==
    \A r \in Runs :
        pc[r] = "mapped" =>
            /\ SumHours(mapped_entries[r]) <= 800
            /\ SumHours(tasks[r]) = 800 =>
                  \A k \in 1..Len(tasks[r]) :
                      mapped_entries[r][k].hours = tasks[r][k].hours

\* Hours that do not sum to 8.0 were rescaled, and truncation left the sum
\* below 8.0.
C10_TruncatedBelowEight ==
    \E r \in Runs :
        /\ pc[r] = "mapped"
        /\ SumHours(tasks[r]) # 800
        /\ SumHours(mapped_entries[r]) < 800

\* The tasks from the i-th on occur in the text t one after another, from
\* position p on.
RECURSIVE InMentionOrder(_, _, _, _)
InMentionOrder(t, p, ts, i) ==
    IF i > Len(ts) THEN TRUE
    ELSE \E q \in p..(Len(t) + 1) :
            /\ StartsWith(t, q, ts[i].task)
            /\ InMentionOrder(t, q + Len(ts[i].task), ts, i + 1)

\* Entry e is task t matched and rescaled, total being the hours of all tasks.
EntryOfTask(e, t, total) ==
    /\ e.hours = IF total = 800 THEN t.hours ELSE ScaledHours(t.hours, total)
    /\ e.score = token_set_ratio(t.task, e.matched_with)

\* The rows of the timesheet that run r appended, in the order of the sheet.
RowsOf(r) ==
    LET ByRun(row) == row.run = r
    IN  SelectSeq(timesheet, ByRun)

ScoresOf(task) ==
    <<>> \o [j \in 1..Len(reference) |->
               token_set_ratio(Strip(task), reference[j].Description)]

\* Entry e is the row at position pos, and that row is the first of those
\* with the highest of the scores.
IsFirstBest(e, pos, scores) ==
    /\ e.matched_with = reference[pos].Description
    /\ e.chargecode_id = reference[pos].WBS_element
    /\ e.score = scores[pos]
    /\ \A j \in 1..Len(scores) : scores[j] <= scores[pos]
    /\ \A j \in 1..(pos - 1) : scores[j] < scores[pos]

\* C9: every task, the empty one too, is resolved to exactly one row of the
\* reference sheet: the one with the highest score, the earliest on ties; the
\* chargecode, the description and the score of the entry are that row's.
C9_HighestScoreEarliestOnTies ==
    \A r \in Runs :
        pc[r] = "mapped" =>
            /\ Len(mapped_entries[r]) = Len(tasks[r])
            /\ \A k \in 1..Len(tasks[r]) :
                  LET Resolved(scores) ==
                          \E pos \in 1..Len(reference) :
                              IsFirstBest(mapped_entries[r][k], pos, scores)
                  IN  Resolved(ScoresOf(tasks[r][k].task))

\* A task was resolved where two rows of the sheet share the highest score.
C9_TieResolved ==
    \E r \in Runs :
        /\ pc[r] = "mapped"
        /\ \E k \in 1..Len(tasks[r]) :
              LET Tied(scores) ==
                      \E i, j \in 1..Len(reference) :
                          /\ i < j
                          /\ scores[i] = mapped_entries[r][k].score
                          /\ scores[j] = mapped_entries[r][k].score
              IN  Tied(ScoresOf(tasks[r][k].task))

====
